---- MODULE Spec2Model ----
(***************************************************************************)
(* NCHU course crawler (src/course_crawler.py).                            *)
(*                                                                         *)
(* Text is a sequence of characters.  A character is a one-character       *)
(* string, except for the characters that cannot be written in a string:   *)
(* "TAB", "LF", "CR" (0x09, 0x0a, 0x0d), "x01" (0x01) and "x7f" (DEL).     *)
(* The modelled alphabet has no backslash, no '.', and no exponent, so     *)
(* string escapes and real-number lexemes never occur in a text.           *)
(***************************************************************************)
EXTENDS Integers, Sequences, FiniteSets, TLC

VARIABLES
    pc,             \* position of the run: "ready"/"done" (one recover) or
                    \* "idle"/"crawling"/"returned"/"raised" (crawl_all_careers)
    pass,           \* number of passes started
    idx,            \* number of careers processed in the current pass
    results,        \* the dict `results` of crawl_all_careers, in insertion order
    report,         \* the value crawl_all_careers returned last
    files,          \* data_dir/<career>_<name>.json, per career
    archive,        \* data_dir/raw_<career>_failed.txt, per career
    fetchLog,       \* careers passed to fetch_course_data in the current pass
    passLog,        \* what happened to each career processed in the current pass
    lastRecovered,  \* the document fetch_course_data returned last, per career
    writesOk,       \* no store write (save_course_data) has failed so far
    faults,         \* number of deviations from the nominal run so far
    raw,            \* response.text of the last request
    outcome         \* what fetch_course_data did with the last response

vars == <<pc, pass, idx, results, report, files, archive, fetchLog, passLog,
          lastRecovered, writesOk, faults, raw, outcome>>

-----------------------------------------------------------------------------
(* Bounds *)

\* Longest response text enumerated exhaustively for one recover.
MaxLen == 3

\* Passes of crawl_all_careers in one behaviour.
MaxPasses == 2

\* Deviations from the nominal run (nominal response, no failure) in one behaviour.
MaxFaults == 2

\* Most characters of a failed write that reach the file.
MaxWritten == 1

-----------------------------------------------------------------------------
(* Characters and text helpers *)

\* re: [\x00-\x1f\x7f-\x9f]
ControlChars == {"TAB", "LF", "CR", "x01", "x7f"}

\* the characters below 0x20, which a strict JSON string may not hold
C0Chars == {"TAB", "LF", "CR", "x01"}

\* re: \s
ReSpace == {" ", "TAB", "LF", "CR"}

\* json.decoder.WHITESPACE: [ \t\n\r]*
JsonSpace == {" ", "TAB", "LF", "CR"}

Digits == {"0", "1", "2", "3", "4", "5", "6", "7", "8", "9"}

DigitVal(c) ==
    CASE c = "0" -> 0 [] c = "1" -> 1 [] c = "2" -> 2 [] c = "3" -> 3
      [] c = "4" -> 4 [] c = "5" -> 5 [] c = "6" -> 6 [] c = "7" -> 7
      [] c = "8" -> 8 [] c = "9" -> 9

DigitChar(n) ==
    CASE n = 0 -> "0" [] n = 1 -> "1" [] n = 2 -> "2" [] n = 3 -> "3"
      [] n = 4 -> "4" [] n = 5 -> "5" [] n = 6 -> "6" [] n = 7 -> "7"
      [] n = 8 -> "8" [] n = 9 -> "9"

\* s[i] of Python with i counted from 1; "EOF" past the end
At(s, i) == IF i >= 1 /\ i <= Len(s) THEN s[i] ELSE "EOF"

\* s[i:] of Python with i counted from 1
From(s, i) == IF i > Len(s) THEN <<>> ELSE SubSeq(s, i, Len(s))

\* str.find(c) counted from 1; 0 when absent
Find(s, c) ==
    IF \E i \in 1..Len(s) : s[i] = c
    THEN CHOOSE i \in 1..Len(s) : s[i] = c /\ \A j \in 1..(i - 1) : s[j] # c
    ELSE 0

\* str.rfind(c) counted from 1; 0 when absent
RFind(s, c) ==
    IF \E i \in 1..Len(s) : s[i] = c
    THEN CHOOSE i \in 1..Len(s) : s[i] = c /\ \A j \in (i + 1)..Len(s) : s[j] # c
    ELSE 0

\* s[i:i+len(lit)] == lit
StartsWith(s, i, lit) ==
    /\ i + Len(lit) - 1 <= Len(s)
    /\ \A k \in 1..Len(lit) : s[i + k - 1] = lit[k]

RECURSIVE SkipWhile(_, _, _)
\* end of the longest run of characters of `set` that starts at i
SkipWhile(s, i, set) ==
    IF i <= Len(s) /\ s[i] \in set THEN SkipWhile(s, i + 1, set) ELSE i

-----------------------------------------------------------------------------
(* json.loads: Python values *)

None == [t |-> "None"]
PyBool(b) == [t |-> "bool", b |-> b]
PyInt(n) == [t |-> "int", n |-> n]
PyFloat(lexeme) == [t |-> "float", f |-> lexeme]
PyStr(s) == [t |-> "str", s |-> s]
PyList(items) == [t |-> "list", a |-> items]
PyDict(pairs) == [t |-> "dict", o |-> pairs]

\* a failed scan: json.JSONDecodeError
DecodeError == [ok |-> FALSE, val |-> None, end |-> 0]
Scanned(v, e) == [ok |-> TRUE, val |-> v, end |-> e]

RECURSIVE DigitsValue(_, _, _, _)
\* the integer written in s[i..e-1], after the digits already read as acc
DigitsValue(s, i, e, acc) ==
    IF i >= e THEN acc ELSE DigitsValue(s, i + 1, e, acc * 10 + DigitVal(s[i]))

\* json.scanner NUMBER_RE (-?(?:0|[1-9]\d*)), integer part only
match_number(s, i) ==
    LET neg == At(s, i) = "-"
        d == IF neg THEN i + 1 ELSE i
        e == IF At(s, d) = "0" THEN d + 1
             ELSE IF At(s, d) \in Digits THEN SkipWhile(s, d, Digits)
             ELSE d
    IN  IF e = d THEN DecodeError
        ELSE Scanned(PyInt(IF neg THEN 0 - DigitsValue(s, d, e, 0)
                                  ELSE DigitsValue(s, d, e, 0)), e)

\* json.decoder.scanstring, strict: s[i] is the character after the opening quote
scanstring(s, i) ==
    LET e == SkipWhile(s, i, {c \in {s[k] : k \in 1..Len(s)} : c # "\"" /\ c \notin C0Chars})
    IN  IF At(s, e) = "\"" THEN Scanned(PyStr(SubSeq(s, i, e - 1)), e + 1)
        ELSE DecodeError

\* dict(pairs): a repeated key keeps its first position and takes the last value
RECURSIVE SetKey(_, _, _)
SetKey(pairs, k, v) ==
    IF pairs = <<>> THEN <<[k |-> k, v |-> v]>>
    ELSE IF Head(pairs).k = k THEN <<[k |-> k, v |-> v]>> \o Tail(pairs)
    ELSE <<Head(pairs)>> \o SetKey(Tail(pairs), k, v)

RECURSIVE scan_once(_, _), JSONObjectLoop(_, _, _), JSONArrayLoop(_, _, _)

\* json.decoder.JSONObject: s[i] is the character after '{'
JSONObject(s, i) ==
    LET j == IF At(s, i) # "\"" THEN SkipWhile(s, i, JsonSpace) ELSE i
    IN  IF At(s, j) = "}" THEN Scanned(PyDict(<<>>), j + 1)
        ELSE IF At(s, j) # "\"" THEN DecodeError
        ELSE JSONObjectLoop(s, j + 1, <<>>)

\* JSONObject after a pair: s[n] is the first character after the value
ObjectAfterPair(s, n, pairs) ==
    IF At(s, n) = "}" THEN Scanned(PyDict(pairs), n + 1)
    ELSE IF At(s, n) # "," \/ At(s, SkipWhile(s, n + 1, JsonSpace)) # "\"" THEN DecodeError
    ELSE JSONObjectLoop(s, SkipWhile(s, n + 1, JsonSpace) + 1, pairs)

\* JSONObject after a value was scanned for key k
ObjectAfterValue(s, value, k, pairs) ==
    IF ~value.ok THEN DecodeError
    ELSE ObjectAfterPair(s, SkipWhile(s, value.end, JsonSpace), SetKey(pairs, k, value.val))

\* JSONObject after a key was scanned
ObjectAfterKey(s, key, pairs) ==
    IF ~key.ok \/ At(s, SkipWhile(s, key.end, JsonSpace)) # ":" THEN DecodeError
    ELSE ObjectAfterValue(
            s,
            scan_once(s, SkipWhile(s, SkipWhile(s, key.end, JsonSpace) + 1, JsonSpace)),
            key.val.s, pairs)

\* one turn of JSONObject's loop: s[i] is the character after a key's opening quote
JSONObjectLoop(s, i, pairs) == ObjectAfterKey(s, scanstring(s, i), pairs)

\* json.decoder.JSONArray: s[i] is the character after '['
JSONArray(s, i) ==
    IF At(s, SkipWhile(s, i, JsonSpace)) = "]"
    THEN Scanned(PyList(<<>>), SkipWhile(s, i, JsonSpace) + 1)
    ELSE JSONArrayLoop(s, SkipWhile(s, i, JsonSpace), <<>>)

\* JSONArray after an item: s[n] is the first character after the value
ArrayAfterItem(s, n, items) ==
    IF At(s, n) = "]" THEN Scanned(PyList(items), n + 1)
    ELSE IF At(s, n) # "," THEN DecodeError
    ELSE JSONArrayLoop(s, SkipWhile(s, n + 1, JsonSpace), items)

\* JSONArray after a value was scanned
ArrayAfterValue(s, value, items) ==
    IF ~value.ok THEN DecodeError
    ELSE ArrayAfterItem(s, SkipWhile(s, value.end, JsonSpace), Append(items, value.val))

\* one turn of JSONArray's loop: a value is expected at s[i]
JSONArrayLoop(s, i, items) == ArrayAfterValue(s, scan_once(s, i), items)

\* a number at s[i], or else one of the constants NaN, Infinity, -Infinity
NumberOrConstant(s, i, number) ==
    IF number.ok THEN number
    ELSE IF StartsWith(s, i, <<"N", "a", "N">>)
         THEN Scanned(PyFloat("NaN"), i + 3)
    ELSE IF StartsWith(s, i, <<"I", "n", "f", "i", "n", "i", "t", "y">>)
         THEN Scanned(PyFloat("Infinity"), i + 8)
    ELSE IF StartsWith(s, i, <<"-", "I", "n", "f", "i", "n", "i", "t", "y">>)
         THEN Scanned(PyFloat("-Infinity"), i + 9)
    ELSE DecodeError

\* json.scanner.py_make_scanner._scan_once
scan_once(s, i) ==
    IF At(s, i) = "\"" THEN scanstring(s, i + 1)
    ELSE IF At(s, i) = "{" THEN JSONObject(s, i + 1)
    ELSE IF At(s, i) = "[" THEN JSONArray(s, i + 1)
    ELSE IF StartsWith(s, i, <<"n", "u", "l", "l">>) THEN Scanned(None, i + 4)
    ELSE IF StartsWith(s, i, <<"t", "r", "u", "e">>) THEN Scanned(PyBool(TRUE), i + 4)
    ELSE IF StartsWith(s, i, <<"f", "a", "l", "s", "e">>)
         THEN Scanned(PyBool(FALSE), i + 5)
    ELSE NumberOrConstant(s, i, match_number(s, i))

\* the value scanned, unless text other than whitespace follows it
WholeText(s, r) ==
    IF r.ok /\ SkipWhile(s, r.end, JsonSpace) = Len(s) + 1 THEN r ELSE DecodeError

\* json.loads(s): the value, or DecodeError (also for text after the value)
json_loads(s) == WholeText(s, scan_once(s, SkipWhile(s, 1, JsonSpace)))

\* len(data) raises TypeError unless data is a dict, a list or a str
HasLen(v) == v.t \in {"dict", "list", "str"}

-----------------------------------------------------------------------------
(* Response texts *)

\* the characters of the exhaustively enumerated response texts
ShortChars == {"{", "}", "[", "]", ",", ":", "\"", "1", "a", " ", "x01"}

ShortTexts == UNION {[1..n -> ShortChars] : n \in 0..MaxLen}

\* 0x01 [1,,2, ]
TextCtrlArray == <<"x01", "[", "1", ",", ",", "2", ",", " ", "]">>
\* 0x01 [1,,2]
TextCtrlArrayNoTrail == <<"x01", "[", "1", ",", ",", "2", "]">>
\* {"a":, "b":1}
TextMissingValue ==
    <<"{", "\"", "a", "\"", ":", ",", " ", "\"", "b", "\"", ":", "1", "}">>
\* {"a":1}
TextDocA == <<"{", "\"", "a", "\"", ":", "1", "}">>
\* {"a":2}
TextDocB == <<"{", "\"", "a", "\"", ":", "2", "}">>
\* {"a":
TextTruncated == <<"{", "\"", "a", "\"", ":">>
\* 1
TextScalar == <<"1">>
\* [{"a":1},{"a":2}]
TextArrayOfObjects ==
    <<"[">> \o TextDocA \o <<",">> \o TextDocB \o <<"]">>
\* {"a":",,"}
TextCommasInString == <<"{", "\"", "a", "\"", ":", "\"", ",", ",", "\"", "}">>
\* {"a":"[,]"}
TextBracketInString ==
    <<"{", "\"", "a", "\"", ":", "\"", "[", ",", "]", "\"", "}">>
\* ["}"]
TextBraceInString == <<"[", "\"", "}", "\"", "]">>
\* {"a": [1, 2], LF "b": null}
TextSpaced ==
    <<"{", "\"", "a", "\"", ":", " ", "[", "1", ",", " ", "2", "]", ",", "LF",
      "\"", "b", "\"", ":", " ", "n", "u", "l", "l", "}">>
\* x {"a":[,1,,2]} %%
TextNoisy ==
    <<"x", " ", "{", "\"", "a", "\"", ":", "[", ",", "1", ",", ",", "2", "]", "}",
      " ", "%", "%">>
\* {"a":[1,,2]}}{
TextRepairedOnly ==
    <<"{", "\"", "a", "\"", ":", "[", "1", ",", ",", "2", "]", "}", "}", "{">>
\* {,,}
TextBraceCommas == <<"{", ",", ",", "}">>

NamedTexts ==
    { TextCtrlArray, TextCtrlArrayNoTrail, TextMissingValue, TextDocA, TextDocB,
      TextTruncated, TextScalar, TextArrayOfObjects, TextCommasInString,
      TextBracketInString, TextBraceInString, TextSpaced, TextNoisy,
      TextRepairedOnly, TextBraceCommas }

\* the response texts one recover is checked on
RawInputs == ShortTexts \cup NamedTexts

\* the response texts the remote endpoint serves during a crawl
NominalText == TextDocA
CrawlTexts == {TextDocA, TextDocB, TextTruncated, TextScalar}

-----------------------------------------------------------------------------
(* json.dump(data, f, ensure_ascii=False, indent=2) *)

RECURSIVE IntDigits(_)
IntDigits(n) ==
    IF n < 10 THEN <<DigitChar(n)>> ELSE IntDigits(n \div 10) \o <<DigitChar(n % 10)>>

\* int.__repr__
IntText(n) == IF n < 0 THEN <<"-">> \o IntDigits(0 - n) ELSE IntDigits(n)

FloatText(f) ==
    CASE f = "NaN" -> <<"N", "a", "N">>
      [] f = "Infinity" -> <<"I", "n", "f", "i", "n", "i", "t", "y">>
      [] f = "-Infinity" -> <<"-", "I", "n", "f", "i", "n", "i", "t", "y">>

RECURSIVE Spaces(_)
Spaces(n) == IF n = 0 THEN <<>> ELSE <<" ">> \o Spaces(n - 1)

\* the newline and indentation json.encoder writes before an item at `level`
NewlineIndent(level) == <<"LF">> \o Spaces(2 * level)

RECURSIVE Encode(_, _), EncodeItems(_, _), EncodePairs(_, _)

\* json.encoder._make_iterencode._iterencode at nesting depth `level`
Encode(v, level) ==
    CASE v.t = "None" -> <<"n", "u", "l", "l">>
      [] v.t = "bool" -> IF v.b THEN <<"t", "r", "u", "e">> ELSE <<"f", "a", "l", "s", "e">>
      [] v.t = "int" -> IntText(v.n)
      [] v.t = "float" -> FloatText(v.f)
      [] v.t = "str" -> <<"\"">> \o v.s \o <<"\"">>
      [] v.t = "list" ->
            IF v.a = <<>> THEN <<"[", "]">>
            ELSE <<"[">> \o EncodeItems(v.a, level + 1) \o NewlineIndent(level) \o <<"]">>
      [] v.t = "dict" ->
            IF v.o = <<>> THEN <<"{", "}">>
            ELSE <<"{">> \o EncodePairs(v.o, level + 1) \o NewlineIndent(level) \o <<"}">>

\* _iterencode_list: the items, each on its own line, separated by ','
EncodeItems(items, level) ==
    IF items = <<>> THEN <<>>
    ELSE NewlineIndent(level) \o Encode(Head(items), level)
         \o (IF Len(items) > 1 THEN <<",">> ELSE <<>>)
         \o EncodeItems(Tail(items), level)

\* _iterencode_dict: "key": value, each on its own line, separated by ','
EncodePairs(pairs, level) ==
    IF pairs = <<>> THEN <<>>
    ELSE NewlineIndent(level) \o <<"\"">> \o Head(pairs).k \o <<"\"", ":", " ">>
         \o Encode(Head(pairs).v, level)
         \o (IF Len(pairs) > 1 THEN <<",">> ELSE <<>>)
         \o EncodePairs(Tail(pairs), level)

\* the text json.dump writes for data
json_dump(data) == Encode(data, 0)

-----------------------------------------------------------------------------
(* Files: open(filepath, 'w') followed by the writes *)

NoFile == [exists |-> FALSE, content |-> <<>>]
FileOf(content) == [exists |-> TRUE, content |-> content]

\* how one open-and-write ends: "ok"; "open_fails" (open raises, nothing is
\* touched); "write_fails" (the file was truncated by open, `written` characters
\* reached it, then OSError)
OkIO == [kind |-> "ok", written |-> 0]
OpenFails == [kind |-> "open_fails", written |-> 0]
WriteFails(k) == [kind |-> "write_fails", written |-> k]

IOOutcomes(content) ==
    {OkIO, OpenFails}
    \cup {WriteFails(k) : k \in {n \in 0..MaxWritten : n < Len(content)}}

\* WriteFile with the file opened in mode 'a': the content is appended
WriteFileAppend(old, content, io) ==
    CASE io.kind = "ok" -> FileOf(old.content \o content)
      [] io.kind = "open_fails" -> old
      [] io.kind = "write_fails" -> FileOf(old.content \o SubSeq(content, 1, io.written))

\* the file after `with open(filepath, 'w') as f: f.write(content)`
WriteFile(old, content, io) ==
    CASE io.kind = "ok" -> FileOf(content)
      [] io.kind = "open_fails" -> old
      [] io.kind = "write_fails" -> FileOf(SubSeq(content, 1, io.written))

-----------------------------------------------------------------------------
(* NCHUCourseCrawler *)

\* self.career_mapping.keys(), in insertion order
Careers == <<"U", "O", "N", "W", "G", "D">>

\* self.career_mapping
career_mapping ==
    [c \in {"U", "O", "N", "W", "G", "D"} |->
        CASE c = "U" -> "bachelor"
          [] c = "O" -> "general_and_pe"
          [] c = "N" -> "continuing"
          [] c = "W" -> "in_service"
          [] c = "G" -> "master"
          [] c = "D" -> "doctoral"]

\* the status tag of the only _save_raw_response calls there are
FailedTag == "failed"

\* _clean_json_text
_clean_json_text(text) ==
    LET cleaned == SelectSeq(text, LAMBDA c : c \notin ControlChars)
        last_brace == RFind(cleaned, "}")
        cut == IF last_brace # 0 THEN SubSeq(cleaned, 1, last_brace) ELSE cleaned
        first_brace == Find(cut, "{")
    IN  IF first_brace > 1 THEN From(cut, first_brace) ELSE cut

RECURSIVE SubBracketCommas(_, _)
\* re.sub(r'\[\s*,+\s*', '[', s), from position i on
SubBracketCommas(s, i) ==
    IF i > Len(s) THEN <<>>
    ELSE LET j == SkipWhile(s, i + 1, ReSpace)
             k == SkipWhile(s, j, {","})
         IN  IF s[i] = "[" /\ k > j
             THEN <<"[">> \o SubBracketCommas(s, SkipWhile(s, k, ReSpace))
             ELSE <<s[i]>> \o SubBracketCommas(s, i + 1)

RECURSIVE SubCommaRuns(_, _)
\* re.sub(r',\s*,+', ',', s), from position i on
SubCommaRuns(s, i) ==
    IF i > Len(s) THEN <<>>
    ELSE LET j == SkipWhile(s, i + 1, ReSpace)
             k == SkipWhile(s, j, {","})
         IN  IF s[i] = "," /\ k > j
             THEN <<",">> \o SubCommaRuns(s, k)
             ELSE <<s[i]>> \o SubCommaRuns(s, i + 1)

\* _repair_common_corruption without its second substitution
_repair_bracket_only(text) == SubBracketCommas(text, 1)

\* _repair_common_corruption
_repair_common_corruption(text) == SubCommaRuns(SubBracketCommas(text, 1), 1)

\* re.search(r'\{.*\}', s, flags=re.S): the match, from the first '{' to the
\* last '}' after it
brace_search(s) ==
    LET first == Find(s, "{")
        last == RFind(s, "}")
    IN  IF first # 0 /\ last > first
        THEN [found |-> TRUE, group |-> SubSeq(s, first, last)]
        ELSE [found |-> FALSE, group |-> <<>>]

\* _save_raw_response(career, content, status): the archive afterwards; an
\* exception is logged and swallowed
_save_raw_response(career, content, status, io, ar) ==
    [ar EXCEPT ![<<career, status>>] = WriteFile(@, content, io)]

\* what requests.get and raise_for_status can do
OkResponse(text) == [kind |-> "ok", text |-> text]
TransportFailures ==
    { [kind |-> "request_exception", text |-> <<>>],   \* requests.get raises
      [kind |-> "http_error", text |-> <<>>],          \* raise_for_status raises
      [kind |-> "status_not_200", text |-> <<>>] }     \* no raise, status_code != 200

\* the rescue attempt of fetch_course_data on `searched`
Rescue(searched) ==
    LET brace_match == brace_search(searched)
        rescue_text == SubSeq(brace_match.group, 1, RFind(brace_match.group, "}"))
        parsed == json_loads(rescue_text)
    IN  [searched |-> searched,
         matched |-> brace_match.found,
         rescue_text |-> IF brace_match.found THEN rescue_text ELSE <<>>,
         ok |-> brace_match.found /\ parsed.ok,
         val |-> IF brace_match.found /\ parsed.ok THEN parsed.val ELSE None]

NoRescue == [searched |-> <<>>, matched |-> FALSE, rescue_text |-> <<>>,
             ok |-> FALSE, val |-> None]

\* recover with the rescue searching the repaired text
recover_rescue_repaired(text) ==
    [data |-> IF json_loads(_repair_common_corruption(_clean_json_text(text))).ok
              THEN (IF HasLen(json_loads(_repair_common_corruption(_clean_json_text(text))).val)
                    THEN json_loads(_repair_common_corruption(_clean_json_text(text))).val
                    ELSE None)
              ELSE Rescue(_repair_common_corruption(_clean_json_text(text))).val,
     cleaned_text |-> _clean_json_text(text),
     repaired_text |-> _repair_common_corruption(_clean_json_text(text)),
     primary_ok |-> json_loads(_repair_common_corruption(_clean_json_text(text))).ok,
     rescue_attempted |-> ~json_loads(_repair_common_corruption(_clean_json_text(text))).ok,
     rescue |-> IF json_loads(_repair_common_corruption(_clean_json_text(text))).ok
                THEN NoRescue
                ELSE Rescue(_repair_common_corruption(_clean_json_text(text))),
     saved_raw |-> ~json_loads(_repair_common_corruption(_clean_json_text(text))).ok
                   /\ ~Rescue(_repair_common_corruption(_clean_json_text(text))).ok,
     saved_content |-> IF ~json_loads(_repair_common_corruption(_clean_json_text(text))).ok
                          /\ ~Rescue(_repair_common_corruption(_clean_json_text(text))).ok
                       THEN text ELSE <<>>]

\* the part of fetch_course_data that depends on response.text alone: clean,
\* repair, parse, and rescue when the parse fails
recover(text) ==
    LET cleaned_text == _clean_json_text(text)
        repaired_text == _repair_common_corruption(cleaned_text)
        primary == json_loads(repaired_text)
        rescue == IF primary.ok THEN NoRescue ELSE Rescue(cleaned_text)
    IN  [data |-> IF primary.ok
                  THEN (IF HasLen(primary.val) THEN primary.val ELSE None)
                  ELSE rescue.val,
         cleaned_text |-> cleaned_text,
         repaired_text |-> repaired_text,
         primary_ok |-> primary.ok,
         rescue_attempted |-> ~primary.ok,
         rescue |-> rescue,
         saved_raw |-> ~primary.ok /\ ~rescue.ok,
         saved_content |-> IF ~primary.ok /\ ~rescue.ok THEN text ELSE <<>>]

\* what fetch_course_data does when no response text is processed
NotProcessed ==
    [data |-> None, cleaned_text |-> <<>>, repaired_text |-> <<>>,
     primary_ok |-> FALSE, rescue_attempted |-> FALSE, rescue |-> NoRescue,
     saved_raw |-> FALSE, saved_content |-> <<>>]

\* recover and json_dump are pure: their values on the longer response texts of
\* the model are computed once and looked up
LongTexts == NamedTexts \cup CrawlTexts
Recovered == [t \in LongTexts |-> recover(t)]
Dumped == [d \in {Recovered[t].data : t \in LongTexts} |-> json_dump(d)]
RecoverOf(text) == IF text \in LongTexts THEN Recovered[text] ELSE recover(text)
DumpOf(data) == IF data \in DOMAIN Dumped THEN Dumped[data] ELSE json_dump(data)

\* fetch_course_data that returns None on a failed recovery without saving
\* the raw response
fetch_course_data_noarchive(career, response, io, ar) ==
    IF response.kind # "ok"
    THEN [step |-> NotProcessed, requested |-> <<career>>, archive |-> ar]
    ELSE [step |-> RecoverOf(response.text), requested |-> <<career>>, archive |-> ar]

\* fetch_course_data(career) when the transport answers `response` and the
\* archive write, if one is made, ends as `io`: the steps taken (the returned
\* data among them), the careers requested from the endpoint, and the archive
\* afterwards
fetch_course_data(career, response, io, ar) ==
    IF response.kind # "ok"
    THEN [step |-> NotProcessed, requested |-> <<career>>, archive |-> ar]
    ELSE [step |-> RecoverOf(response.text),
          requested |-> <<career>>,
          archive |-> IF RecoverOf(response.text).saved_raw
                      THEN _save_raw_response(career, response.text, FailedTag, io, ar)
                      ELSE ar]

\* save_course_data without its try/except: a failed write raises
save_course_data_unguarded(career, data, io, fs) ==
    [ret |-> io.kind = "ok",
     raised |-> io.kind # "ok",
     files |-> [fs EXCEPT ![career] = WriteFile(@, DumpOf(data), io)]]

\* save_course_data(career, data) when the write ends as `io`: the return
\* value, the data files afterwards, and whether an exception leaves the call
save_course_data(career, data, io, fs) ==
    [ret |-> io.kind = "ok",
     raised |-> FALSE,
     files |-> [fs EXCEPT ![career] = WriteFile(@, DumpOf(data), io)]]

-----------------------------------------------------------------------------
(* State *)

CareerSet == {Careers[i] : i \in 1..Len(Careers)}
ArchiveKeys == CareerSet \X {FailedTag}


InitCommon ==
    /\ pass = 0
    /\ idx = 0
    /\ results = <<>>
    /\ report = <<>>
    /\ files = [c \in CareerSet |-> NoFile]
    /\ archive = [k \in ArchiveKeys |-> NoFile]
    /\ fetchLog = <<>>
    /\ passLog = <<>>
    /\ lastRecovered = [c \in CareerSet |-> None]
    /\ writesOk = TRUE
    /\ faults = 0
    /\ outcome = NotProcessed

-----------------------------------------------------------------------------
(* One request: fetch_course_data on one response text *)

InitRecover ==
    /\ InitCommon
    /\ pc = "ready"
    /\ raw \in RawInputs

\* fetch_course_data("U") on a 200 response whose text is raw, the archive writable
Recover ==
    /\ pc = "ready"
    /\ outcome' = fetch_course_data("U", OkResponse(raw), OkIO, archive).step
    /\ archive' = fetch_course_data("U", OkResponse(raw), OkIO, archive).archive
    /\ pc' = "done"
    /\ UNCHANGED <<pass, idx, results, report, files, fetchLog, passLog,
                   lastRecovered, writesOk, faults, raw>>

NextRecover == Recover

SpecRecover == InitRecover /\ [][NextRecover]_vars

-----------------------------------------------------------------------------
(* crawl_all_careers *)

\* after_fetch without the else branch: a failed category gets no entry
after_fetch_no_else(career_name, fetch, saved, res, fs) ==
    IF fetch.step.data # None
    THEN [fetched |-> fetch.step, requested |-> fetch.requested,
          stored |-> TRUE, raised |-> saved.raised,
          results |-> SetKey(res, career_name, saved.ret),
          files |-> saved.files, archive |-> fetch.archive]
    ELSE [fetched |-> fetch.step, requested |-> fetch.requested,
          stored |-> FALSE, raised |-> FALSE,
          results |-> res,
          files |-> fs, archive |-> fetch.archive]

\* after_fetch recording whether data was recovered, not whether it was saved
after_fetch_parse_only(career_name, fetch, saved, res, fs) ==
    IF fetch.step.data # None
    THEN [fetched |-> fetch.step, requested |-> fetch.requested,
          stored |-> TRUE, raised |-> saved.raised,
          results |-> SetKey(res, career_name, TRUE),
          files |-> saved.files, archive |-> fetch.archive]
    ELSE [fetched |-> fetch.step, requested |-> fetch.requested,
          stored |-> FALSE, raised |-> FALSE,
          results |-> SetKey(res, career_name, FALSE),
          files |-> fs, archive |-> fetch.archive]

\* the rest of a turn once fetch_course_data has returned `fetch` and, when
\* data is not None, save_course_data has returned `saved`
after_fetch(career_name, fetch, saved, res, fs) ==
    IF fetch.step.data # None
    THEN [fetched |-> fetch.step, requested |-> fetch.requested,
          stored |-> TRUE, raised |-> saved.raised,
          results |-> SetKey(res, career_name, saved.ret),
          files |-> saved.files, archive |-> fetch.archive]
    ELSE [fetched |-> fetch.step, requested |-> fetch.requested,
          stored |-> FALSE, raised |-> FALSE,
          results |-> SetKey(res, career_name, FALSE),
          files |-> fs, archive |-> fetch.archive]

\* save_course_data(career, data) as the loop calls it, after fetch returned
save_fetched(career, fetch, sio, fs) ==
    IF fetch.step.data # None
    THEN save_course_data(career, fetch.step.data, sio, fs)
    ELSE [ret |-> FALSE, raised |-> FALSE, files |-> fs]

\* the turn once fetch_course_data has returned `fetch`
loop_after_fetch(career, fetch, sio, res, fs) ==
    after_fetch(career_mapping[career], fetch, save_fetched(career, fetch, sio, fs), res, fs)

\* one turn of the for loop of crawl_all_careers, time.sleep(2) included: the
\* transport answers `response`, the archive write (if made) ends as aio and the
\* store write (if made) as sio
loop_body(career, response, aio, sio, res, fs, ar) ==
    loop_after_fetch(career, fetch_course_data(career, response, aio, ar), sio, res, fs)

Responses == TransportFailures \cup {OkResponse(t) : t \in CrawlTexts}

\* the step fetch_course_data takes for `response`, before any write
Probe(response) ==
    IF response.kind = "ok" THEN RecoverOf(response.text) ELSE NotProcessed

\* the ways the archive write of a turn can end: none is made unless the step
\* saves the raw response
ArchiveIOs(response, step) ==
    IF step.saved_raw THEN IOOutcomes(response.text) ELSE {OkIO}

\* the ways the store write of a turn can end: none is made unless data is returned
StoreIOs(step) ==
    IF step.data # None THEN IOOutcomes(DumpOf(step.data)) ELSE {OkIO}

\* how many ways a turn deviates from the nominal one
Deviations(response, aio, sio) ==
    (IF response = OkResponse(NominalText) THEN 0 ELSE 1)
    + (IF aio = OkIO THEN 0 ELSE 1)
    + (IF sio = OkIO THEN 0 ELSE 1)

InitCrawl ==
    /\ InitCommon
    /\ pc = "idle"
    /\ raw = <<>>

\* crawl_all_careers is called: results = {}
StartPass ==
    /\ pc \in {"idle", "returned"}
    /\ pass < MaxPasses
    /\ pass' = pass + 1
    /\ pc' = "crawling"
    /\ idx' = 0
    /\ results' = <<>>
    /\ fetchLog' = <<>>
    /\ passLog' = <<>>
    /\ UNCHANGED <<report, files, archive, lastRecovered, writesOk, faults, raw, outcome>>

\* the state after a turn of the loop, given what the turn did
TurnDone(career, response, aio, sio, turn) ==
    /\ fetchLog' = fetchLog \o turn.requested
    /\ raw' = response.text
    /\ outcome' = turn.fetched
    /\ results' = turn.results
    /\ files' = turn.files
    /\ archive' = turn.archive
    /\ passLog' = Append(passLog,
           [career |-> career,
            transport_ok |-> response.kind = "ok",
            recovered |-> turn.fetched.data # None,
            archive_ok |-> aio.kind = "ok",
            store_ok |-> sio.kind = "ok"])
    /\ lastRecovered' =
           IF turn.fetched.data # None
           THEN [lastRecovered EXCEPT ![career] = turn.fetched.data]
           ELSE lastRecovered
    /\ writesOk' = (writesOk /\ sio.kind = "ok")
    /\ idx' = idx + 1
    /\ pc' = IF turn.raised THEN "raised" ELSE "crawling"

\* the writes of a turn end as aio and sio
TurnWith(career, response, aio, sio) ==
    /\ faults + Deviations(response, aio, sio) <= MaxFaults
    /\ faults' = faults + Deviations(response, aio, sio)
    /\ TurnDone(career, response, aio, sio,
                loop_body(career, response, aio, sio, results, files, archive))

\* the transport answers `response`, for which fetch_course_data takes `step`
TurnOn(career, response, step) ==
    \E aio \in ArchiveIOs(response, step) :
        \E sio \in StoreIOs(step) : TurnWith(career, response, aio, sio)

\* the next turn of the for loop
CrawlCareer ==
    /\ pc = "crawling"
    /\ idx < Len(Careers)
    /\ \E response \in Responses : TurnOn(Careers[idx + 1], response, Probe(response))
    /\ UNCHANGED <<pass, report>>

\* the loop is over: _print_summary(results); return results
FinishPass ==
    /\ pc = "crawling"
    /\ idx = Len(Careers)
    /\ report' = results
    /\ pc' = "returned"
    /\ UNCHANGED <<pass, idx, results, files, archive, fetchLog, passLog,
                   lastRecovered, writesOk, faults, raw, outcome>>

Next == StartPass \/ CrawlCareer \/ FinishPass

Spec == InitCrawl /\ [][Next]_vars

-----------------------------------------------------------------------------
(* Properties of crawl_all_careers, checked under Spec *)

Turns == 1..Len(passLog)

\* the persisted document of career c is the complete text of document d
PersistedIs(c, d) == files[c] = FileOf(DumpOf(d))

\* exactly one career's transport call failed in the pass, and every other
\* career's response was recovered to a document
OneTransportFailure ==
    /\ Len(passLog) = Len(Careers)
    /\ Cardinality({i \in Turns : ~passLog[i].transport_ok}) = 1
    /\ \A i \in Turns : passLog[i].transport_ok => passLog[i].recovered

\* the report is false for the career whose transport failed and true for
\* the others, and a document is persisted for every career marked true
IsolatedReport ==
    /\ Len(report) = Len(Careers)
    /\ \A i \in Turns :
          /\ report[i].k = career_mapping[Careers[i]]
          /\ report[i].v = passLog[i].transport_ok
          /\ report[i].v => PersistedIs(Careers[i], lastRecovered[Careers[i]])

C2_EachCareerOnce ==
    /\ pc # "raised"
    /\ fetchLog = SubSeq(Careers, 1, idx)
    /\ Len(results) = idx
    /\ \A i \in 1..idx :
          results[i].k = career_mapping[Careers[i]] /\ results[i].v \in BOOLEAN
    /\ pc = "returned" =>
          /\ fetchLog = Careers
          /\ Len(report) = Len(Careers)
          /\ \A i \in 1..Len(Careers) :
                report[i].k = career_mapping[Careers[i]] /\ report[i].v \in BOOLEAN

C2_Witness ==
    /\ pc = "returned"
    /\ \E i \in Turns : ~passLog[i].transport_ok
    /\ \E i \in Turns : passLog[i].recovered /\ ~passLog[i].store_ok

\* the last turn of the loop fetched a response and recovered no document
LastTurnUnrecovered ==
    /\ pc = "crawling"
    /\ idx > 0
    /\ passLog[idx].transport_ok
    /\ ~passLog[idx].recovered

\* C4 as stated: whenever the transport succeeds for a career and recovery
\* yields no document, the archive entry of that career under the "failed" tag
\* is written with the original response text (whatever it held before), and
\* the report marks the career false.  Stated for a writable archive.
C4_Original ==
    (LastTurnUnrecovered /\ passLog[idx].archive_ok) =>
        /\ outcome.saved_raw
        /\ outcome.saved_content = raw
        /\ archive[<<Careers[idx], FailedTag>>] = FileOf(raw)
        /\ results[idx].v = FALSE

\* the texts save_course_data can have meant to write
CompleteDocuments ==
    {DumpOf(RecoverOf(t).data) : t \in {u \in CrawlTexts : RecoverOf(u).data # None}}

\* C5 as stated: the persisted document of a career is always absent or the
\* complete text of a recovered document, never a truncated one.
C5_Original ==
    \A c \in CareerSet : files[c].exists => files[c].content \in CompleteDocuments

\* C6 as stated: when a career is recovered and its store write fails, the
\* report value stays the one computed from the parse outcome (success).
C6_Original ==
    \A i \in Turns :
        (passLog[i].recovered /\ ~passLog[i].store_ok) => results[i].v = TRUE

\* C6 as amended: when a career is recovered and its store write fails, the
\* report value of the career is false; the report records the result of the
\* store write.
C6_ReportIsStoreResult ==
    /\ \A i \in Turns :
          /\ i <= Len(results)
          /\ results[i].v = (passLog[i].recovered /\ passLog[i].store_ok)
    /\ pc = "returned" => report = results

C6_Witness ==
    /\ pc = "returned"
    /\ \E i \in Turns :
          passLog[i].recovered /\ ~passLog[i].store_ok /\ report[i].v = FALSE

\* C7: while store writes succeed, the persisted document of a career is
\* exactly the document recovered for it most recently (absent if none ever
\* was), so a later recovery overwrites it whole and a failed turn leaves it as
\* it was.
C7_LatestRecovered ==
    writesOk =>
        \A c \in CareerSet :
            IF lastRecovered[c] = None THEN files[c] = NoFile
            ELSE PersistedIs(c, lastRecovered[c])

C7_Witness ==
    /\ pc = "returned"
    /\ pass = 2
    /\ writesOk
    /\ \E i \in Turns :
          /\ passLog[i].recovered
          /\ lastRecovered[Careers[i]] = RecoverOf(TextDocB).data
    /\ \E i \in Turns :
          /\ ~passLog[i].recovered
          /\ PersistedIs(Careers[i], RecoverOf(TextDocA).data)

-----------------------------------------------------------------------------
(* Properties of one fetch_course_data, checked under SpecRecover *)

\* well-formed text whose value is an object or an array
CleanInput(text) ==
    json_loads(text).ok /\ json_loads(text).val.t \in {"dict", "list"}

\* C3 as stated: on well-formed text (an object or an array at the top) the
\* recovery succeeds and returns the value a strict parse of the text yields.
C3_Original ==
    (pc = "done" /\ CleanInput(raw)) => outcome.data = json_loads(raw).val

C10_StageOrder ==
    pc = "done" =>
        /\ outcome.rescue_attempted = ~json_loads(outcome.repaired_text).ok
        /\ outcome.repaired_text = _repair_common_corruption(_clean_json_text(raw))
        /\ outcome.rescue_attempted =>
              /\ outcome.rescue.searched = _clean_json_text(raw)
              /\ outcome.rescue.matched =>
                    /\ brace_search(_clean_json_text(raw)).group = outcome.rescue.rescue_text
                    /\ outcome.rescue.ok = json_loads(outcome.rescue.rescue_text).ok
              /\ ~outcome.rescue.ok =>
                    /\ outcome.data = None
                    /\ outcome.saved_raw
                    /\ outcome.saved_content = raw
        /\ ~outcome.rescue_attempted => outcome.rescue = NoRescue

C10_Witness ==
    /\ pc = "done"
    /\ outcome.rescue_attempted
    /\ outcome.rescue.matched
    /\ ~outcome.rescue.ok
    /\ outcome.repaired_text # outcome.cleaned_text
    /\ outcome.data = None

====
